---- MODULE Spec2Model ----
(***************************************************************************)
(* nltk/tokenize/stanford_segmenter.py: the StanfordSegmenter adapter.     *)
(* An instance holds the configuration of the external segmenter; a        *)
(* segmentation call stages its input in a temporary file, builds the      *)
(* argument list, sets the global java options, runs the child process,    *)
(* restores the options and deletes the temporary file.                    *)
(***************************************************************************)
EXTENDS Integers, Sequences, FiniteSets, TLC

VARIABLES
    seg,                \* instance -> the fields of a StanfordSegmenter object
    given_options,      \* instance -> the options dict its constructor was given
    internals_java_options, \* nltk.internals._java_options, the process-wide list
    files,              \* the temporary files that exist on the filesystem
    pc,                 \* thread -> its position inside the call it runs
    frame,              \* thread -> the local variables of the call it runs
    before,             \* thread -> what the thread's current call found on entry
    launched,           \* thread -> the child process its current call launched
    result,             \* thread -> how its last call ended
    ncalls              \* the number of calls made so far

vars == <<seg, given_options, internals_java_options, files, pc, frame, before,
          launched, result, ncalls>>

----------------------------------------------------------------------------
(* Bounds of the model. *)

\* number of distinct names tempfile.mkstemp can hand out
MaxTmp == 2

\* number of calls (default_config, segment, segment_sents, segment_file) a run makes
MaxCalls == 2

----------------------------------------------------------------------------
(* Values. *)

None == "None"

\* the binding `from nltk.internals import _java_options` captures at import:
\* the list object the process started with (config_java rebinds its own
\* module global and never mutates this list)
imported_java_options == <<>>

TmpPaths == {"/tmp/tmp" \o ToString(k) : k \in 1..MaxTmp}

InputFilePaths == {"test.simp.utf8"}

Langs == {"ar", "zh", "fr"}

\* the options dicts given to the constructor, as insertion-ordered items
OptionsInputs ==
    { <<>>,
      << [key |-> "a", val |-> [kind |-> "int", v |-> "1"]] >>,
      << [key |-> "a", val |-> [kind |-> "int", v |-> "1"]],
         [key |-> "b", val |-> [kind |-> "str", v |-> "x"]] >> }

JavaOptionsInputs == {"-mx2g", "-mx1g"}

----------------------------------------------------------------------------
(* Library behaviour the module relies on. *)

\* ' '.join(list)
RECURSIVE join(_, _)
join(sep, list) ==
    IF list = <<>> THEN ""
    ELSE IF Len(list) = 1 THEN list[1]
    ELSE list[1] \o sep \o join(sep, Tail(list))

\* json.dumps(val) for an int or a str
json_dumps(val) ==
    IF val.kind = "str" THEN "\"" \o val.v \o "\"" ELSE val.v

\* str.split() of an option string that holds no whitespace
split(s) == IF s = "" THEN <<>> ELSE <<s>>

\* os.path.join(a, b)
os_path_join(a, b) == a \o "/" \o b

\* fmt % arg (printf-style formatting of one argument).  A format is the
\* sequence of its pieces: literal text, and for each conversion the piece
\* "%" followed by a piece holding the conversion character.
ConversionChars == {"s", "r", "d"}

RECURSIVE percent_format(_, _)
percent_format(fmt, arg) ==
    IF fmt = <<>> THEN [exc |-> None, text |-> <<>>]
    ELSE IF fmt[1] # "%" THEN
        LET rest == percent_format(Tail(fmt), arg)
        IN  IF rest.exc # None THEN rest
            ELSE [exc |-> None, text |-> <<fmt[1]>> \o rest.text]
    ELSE IF Len(fmt) = 1 THEN [exc |-> "ValueError", text |-> <<"incomplete format">>]
    ELSE IF fmt[2] \notin ConversionChars THEN
        [exc |-> "ValueError",
         text |-> <<"unsupported format character ", fmt[2]>>]
    ELSE
        LET rest == percent_format(Tail(Tail(fmt)), arg)
        IN  IF rest.exc # None THEN rest
            ELSE [exc |-> None, text |-> <<arg>> \o rest.text]

\* nltk.internals.find_file / find_dir: the path found, or LookupError
find_file(filename, found) ==
    IF found THEN [exc |-> None, path |-> "/stanford/data/" \o filename]
    ELSE [exc |-> "LookupError", path |-> None]

find_dir(dirname, found) ==
    IF found THEN [exc |-> None, path |-> "/stanford"]
    ELSE [exc |-> "LookupError", path |-> None]

\* nltk.internals.config_java(options=...): the new process-wide option list
config_java(options) == split(options)

----------------------------------------------------------------------------
(* StanfordSegmenter.__init__ *)

options_cmd(options) ==
    join(",", [k \in 1..Len(options) |->
                 options[k].key \o "=" \o json_dumps(options[k].val)])

init(java_class, path_to_model, path_to_dict, path_to_sihan_corpora_dict, sihan_post_processing, keep_whitespaces, encoding, options, java_options) ==
    [ stanford_jar |-> join(":", <<"stanford-segmenter.jar", "slf4j-api.jar">>),
      java_class |-> java_class,
      model |-> path_to_model,
      sihan_corpora_dict |-> path_to_sihan_corpora_dict,
      sihan_post_processing |-> sihan_post_processing,
      keep_whitespaces |-> keep_whitespaces,
      dict |-> path_to_dict,
      encoding |-> encoding,
      java_options |-> java_options,
      options_cmd |-> options_cmd(options),
      input_file_path |-> None ]

----------------------------------------------------------------------------
(* StanfordSegmenter.default_config: the instance's fields when the call    *)
(* ends, and the exception it ends with (None when it returns).            *)

raise(self, exc, formatted) ==
    IF formatted.exc # None
    THEN [self |-> self, exc |-> formatted.exc, msg |-> formatted.text]
    ELSE [self |-> self, exc |-> exc, msg |-> formatted.text]

find_model(self, model, modelFound) ==
    LET found == find_file(model, modelFound)
    IN  IF found.exc = None
        THEN [self |-> [self EXCEPT !.model = found.path], exc |-> None, msg |-> <<>>]
        ELSE raise(self, "LookupError",
                   percent_format(<<"Could not find '", "%", "s",
                       "' (tried using env. variables STANFORD_MODELS and <STANFORD_SEGMENTER>/data/)">>,
                       model))

\* a default_config that leaves the dictionary and corpora paths as they were
keep_chinese_paths(self) ==
    [self EXCEPT !.sihan_post_processing = "false"]

\* a default_config that leaves the post-processing flag as it was
keep_post_processing(self) ==
    [self EXCEPT !.dict = None, !.sihan_corpora_dict = None]

\* "init for Chinese-specific files"
reset_chinese_fields(self) ==
    [self EXCEPT !.dict = None,
                 !.sihan_corpora_dict = None,
                 !.sihan_post_processing = "false"]

default_config(self, lang, dictFound, dirFound, modelFound) ==
    LET s0 == reset_chinese_fields(self)
    IN  IF lang = "ar" THEN
            find_model([s0 EXCEPT !.java_class =
                           "edu.stanford.nlp.international.arabic.process.ArabicSegmenter"],
                       "arabic-segmenter-atb+bn+arztrain.ser.gz", modelFound)
        ELSE IF lang = "zh" THEN
            LET s1 == [s0 EXCEPT !.java_class = "edu.stanford.nlp.ie.crf.CRFClassifier",
                                 !.sihan_post_processing = "true"]
                path_to_dict == "dict-chris6.ser.gz"
                d == find_file(path_to_dict, dictFound)
                sihan_dir == "./data/"
                p == find_dir(sihan_dir, dirFound)
            IN  IF d.exc # None THEN
                    raise(s1, "LookupError",
                          percent_format(<<"Could not find '", "%", "s",
                              "' (tried using env. variables STANFORD_MODELS and <STANFORD_SEGMENTER>/data/)">>,
                              path_to_dict))
                ELSE IF p.exc # None THEN
                    raise([s1 EXCEPT !.dict = d.path], "LookupError",
                          percent_format(<<"Could not find '", "%", "s",
                              "' (tried using the STANFORD_SEGMENTER environment variable)">>,
                              sihan_dir))
                ELSE
                    find_model([s1 EXCEPT !.dict = d.path,
                                          !.sihan_corpora_dict =
                                              os_path_join(p.path, sihan_dir)],
                               "pku.gz", modelFound)
        ELSE
            raise(s0, "LookupError",
                  percent_format(<<"Unsupported language '", "%", "'">>, lang))

----------------------------------------------------------------------------
(* The argument list: segment_file, segment_sents and _execute.            *)

segment_file_cmd(self, input_file_path) ==
    LET cmd == << self.java_class,
                  "-loadClassifier", self.model,
                  "-keepAllWhitespaces", self.keep_whitespaces,
                  "-textFile", input_file_path >>
    IN  IF self.sihan_corpora_dict # None
        THEN cmd \o << "-serDictionary", self.dict,
                       "-sighanCorporaDict", self.sihan_corpora_dict,
                       "-sighanPostProcessing", self.sihan_post_processing >>
        ELSE cmd

\* a segment_sents that adds the Chinese arguments when the dictionary is set
segment_sents_cmd_on_dict(self) ==
    LET cmd == << self.java_class,
                  "-loadClassifier", self.model,
                  "-keepAllWhitespaces", self.keep_whitespaces,
                  "-textFile", self.input_file_path >>
    IN  IF self.dict # None
        THEN cmd \o << "-serDictionary", self.dict,
                       "-sighanCorporaDict", self.sihan_corpora_dict,
                       "-sighanPostProcessing", self.sihan_post_processing >>
        ELSE cmd

segment_sents_cmd(self) ==
    LET cmd == << self.java_class,
                  "-loadClassifier", self.model,
                  "-keepAllWhitespaces", self.keep_whitespaces,
                  "-textFile", self.input_file_path >>
    IN  IF self.sihan_corpora_dict # None
        THEN cmd \o << "-serDictionary", self.dict,
                       "-sighanCorporaDict", self.sihan_corpora_dict,
                       "-sighanPostProcessing", self.sihan_post_processing >>
        ELSE cmd

execute_cmd(self, cmd) ==
    LET cmd1 == cmd \o << "-inputEncoding", self.encoding >>
    IN  IF self.options_cmd # ""
        THEN cmd1 \o << "-options", self.options_cmd >>
        ELSE cmd1

----------------------------------------------------------------------------
(* State. *)

NoFrame ==
    [ self |-> 0, entry |-> None, input_fh |-> None, input_file_path |-> None,
      cmd |-> <<>>,
      default_options |-> None, stdout |-> None, unlinked |-> None ]

NoLaunch == [ started |-> FALSE, cmd |-> <<>>, classpath |-> None, java_options |-> <<>> ]

NoResult == [ op |-> None, self |-> 0, lang |-> None, state |-> "none",
              exc |-> None, msg |-> <<>> ]

NoBefore == [ self |-> 0, seg |-> None, java_options |-> <<>>, last |-> NoResult ]

Inst == DOMAIN seg
Threads == DOMAIN pc

Entered(t, i) ==
    [ self |-> i, seg |-> seg[i], java_options |-> internals_java_options,
      last |-> result[t] ]

Running(op, i) == [NoResult EXCEPT !.op = op, !.self = i, !.state = "running"]

Returned(r) == [r EXCEPT !.state = "returned"]

Raised(r, exc, msg) == [r EXCEPT !.state = "raised", !.exc = exc, !.msg = msg]

Constructed ==
    { init(None, path_to_model, path_to_dict, path_to_sihan_corpora_dict,
           sihan_post_processing, keep_whitespaces, "UTF-8", <<>>, "-mx2g") :
        path_to_model \in {None},
        path_to_dict \in {None, "./data/dict-chris6.ser.gz"},
        path_to_sihan_corpora_dict \in {None, "./data"},
        sihan_post_processing \in {"false", "true"},
        keep_whitespaces \in {"false", "true"} }

InitCommon ==
    /\ internals_java_options = imported_java_options
    /\ files = {}
    /\ pc = [t \in DOMAIN seg |-> "idle"]
    /\ frame = [t \in DOMAIN seg |-> NoFrame]
    /\ before = [t \in DOMAIN seg |-> NoBefore]
    /\ launched = [t \in DOMAIN seg |-> NoLaunch]
    /\ result = [t \in DOMAIN seg |-> NoResult]
    /\ ncalls = 0

\* one instance, built with any combination of arguments, used by one thread
Init ==
    /\ \E s \in Constructed, options \in OptionsInputs, java_options \in JavaOptionsInputs :
         /\ seg = [i \in {1} |-> [s EXCEPT !.options_cmd = options_cmd(options),
                                           !.java_options = java_options]]
         /\ given_options = [i \in {1} |-> options]
    /\ InitCommon

\* two instances built with the default arguments and their own java_options,
\* used by two threads
InitPar ==
    /\ \E o1, o2 \in JavaOptionsInputs :
         seg = [i \in {1, 2} |->
                  init(None, None, None, None, "false", "false", "UTF-8", <<>>,
                       IF i = 1 THEN o1 ELSE o2)]
    /\ given_options = [i \in {1, 2} |-> <<>>]
    /\ InitCommon

----------------------------------------------------------------------------
(* Operations. *)

default_config_call(t) ==
    /\ pc[t] = "idle"
    /\ ncalls < MaxCalls
    /\ ncalls' = ncalls + 1
    /\ \E i \in Inst, lang \in Langs, dictFound, dirFound, modelFound \in BOOLEAN :
         LET r == default_config(seg[i], lang, dictFound, dirFound, modelFound)
             run == [Running("default_config", i) EXCEPT !.lang = lang]
         IN  /\ seg' = [seg EXCEPT ![i] = r.self]
             /\ before' = [before EXCEPT ![t] = Entered(t, i)]
             /\ result' = [result EXCEPT ![t] =
                             IF r.exc = None THEN Returned(run)
                             ELSE Raised(run, r.exc, r.msg)]
    /\ frame' = [frame EXCEPT ![t] = NoFrame]
    /\ launched' = [launched EXCEPT ![t] = NoLaunch]
    /\ UNCHANGED <<given_options, internals_java_options, files, pc>>

\* segment_sents up to the closing of the temporary file it writes
stage_input(t, entry) ==
    /\ pc[t] = "idle"
    /\ ncalls < MaxCalls
    /\ ncalls' = ncalls + 1
    /\ \E i \in Inst, path \in TmpPaths \ files :
         /\ seg' = [seg EXCEPT ![i].input_file_path = path]
         /\ files' = files \cup {path}
         /\ frame' = [frame EXCEPT ![t] =
                        [NoFrame EXCEPT !.self = i, !.entry = entry, !.input_fh = path]]
         /\ before' = [before EXCEPT ![t] = Entered(t, i)]
         /\ result' = [result EXCEPT ![t] = Running(entry, i)]
    /\ pc' = [pc EXCEPT ![t] = "staged"]
    /\ launched' = [launched EXCEPT ![t] = NoLaunch]
    /\ UNCHANGED <<given_options, internals_java_options>>

segment(t) == stage_input(t, "segment")

segment_sents(t) == stage_input(t, "segment_sents")

segment_sents_build(t) ==
    /\ pc[t] = "staged"
    /\ frame' = [frame EXCEPT ![t].cmd = segment_sents_cmd(seg[frame[t].self])]
    /\ pc' = [pc EXCEPT ![t] = "built"]
    /\ UNCHANGED <<ncalls, seg, given_options, internals_java_options, files, before,
                   launched, result>>

segment_file(t) ==
    /\ pc[t] = "idle"
    /\ ncalls < MaxCalls
    /\ ncalls' = ncalls + 1
    /\ \E i \in Inst, input_file_path \in InputFilePaths :
         /\ frame' = [frame EXCEPT ![t] =
                        [NoFrame EXCEPT !.self = i, !.entry = "segment_file",
                                        !.input_file_path = input_file_path,
                                        !.cmd = segment_file_cmd(seg[i], input_file_path)]]
         /\ before' = [before EXCEPT ![t] = Entered(t, i)]
         /\ result' = [result EXCEPT ![t] = Running("segment_file", i)]
    /\ pc' = [pc EXCEPT ![t] = "built"]
    /\ launched' = [launched EXCEPT ![t] = NoLaunch]
    /\ UNCHANGED <<seg, given_options, internals_java_options, files>>

\* _execute up to config_java(options=self.java_options)
execute_config(t) ==
    /\ pc[t] = "built"
    /\ LET self == seg[frame[t].self]
       IN  /\ frame' = [frame EXCEPT ![t].cmd = execute_cmd(self, frame[t].cmd),
                                     ![t].default_options = join(" ", imported_java_options)]
           /\ internals_java_options' = config_java(self.java_options)
    /\ pc' = [pc EXCEPT ![t] = "configured"]
    /\ UNCHANGED <<ncalls, seg, given_options, files, before, launched, result>>

Launch(t) ==
    [ started |-> TRUE, cmd |-> frame[t].cmd,
      classpath |-> seg[frame[t].self].stanford_jar,
      java_options |-> internals_java_options ]

\* java(cmd, ...) and stdout.decode(encoding) both succeed
execute_java(t) ==
    /\ pc[t] = "configured"
    /\ launched' = [launched EXCEPT ![t] = Launch(t)]
    /\ frame' = [frame EXCEPT ![t].stdout = "stdout"]
    /\ pc' = [pc EXCEPT ![t] = "ran"]
    /\ UNCHANGED <<ncalls, seg, given_options, internals_java_options, files, before, result>>

\* java(cmd, ...) raises OSError (the child cannot start or exits non-zero), or
\* stdout.decode(encoding) raises: nothing catches it, the call ends here
execute_java_raises(t) ==
    /\ pc[t] = "configured"
    /\ launched' = [launched EXCEPT ![t] = Launch(t)]
    /\ \E exc \in {"OSError", "UnicodeDecodeError"} :
         result' = [result EXCEPT ![t] = Raised(result[t], exc, <<"stderr">>)]
    /\ pc' = [pc EXCEPT ![t] = "idle"]
    /\ UNCHANGED <<ncalls, seg, given_options, internals_java_options, files, frame, before>>

\* config_java(options=default_options) and the return of _execute; segment_file
\* returns with it
execute_restore(t) ==
    /\ pc[t] = "ran"
    /\ internals_java_options' = config_java(frame[t].default_options)
    /\ IF frame[t].entry = "segment_file"
       THEN /\ pc' = [pc EXCEPT ![t] = "idle"]
            /\ result' = [result EXCEPT ![t] = Returned(result[t])]
       ELSE /\ pc' = [pc EXCEPT ![t] = "executed"]
            /\ UNCHANGED result
    /\ UNCHANGED <<ncalls, seg, given_options, files, frame, before, launched>>

\* os.unlink(self._input_file_path) and the return of segment_sents
segment_sents_unlink(t) ==
    /\ pc[t] = "executed"
    /\ LET path == seg[frame[t].self].input_file_path
       IN  /\ frame' = [frame EXCEPT ![t].unlinked = path]
           /\ IF path \in files
              THEN /\ files' = files \ {path}
                   /\ result' = [result EXCEPT ![t] = Returned(result[t])]
              ELSE /\ UNCHANGED files
                   /\ result' = [result EXCEPT ![t] =
                                   Raised(result[t], "OSError", <<"No such file: ", path>>)]
    /\ pc' = [pc EXCEPT ![t] = "idle"]
    /\ UNCHANGED <<ncalls, seg, given_options, internals_java_options, before, launched>>

Next ==
    \/ \E t \in Threads : default_config_call(t)
    \/ \E t \in Threads : segment(t)
    \/ \E t \in Threads : segment_sents(t)
    \/ \E t \in Threads : segment_sents_build(t)
    \/ \E t \in Threads : segment_file(t)
    \/ \E t \in Threads : execute_config(t)
    \/ \E t \in Threads : execute_java(t)
    \/ \E t \in Threads : execute_java_raises(t)
    \/ \E t \in Threads : execute_restore(t)
    \/ \E t \in Threads : segment_sents_unlink(t)

Spec == Init /\ [][Next]_vars

\* two threads that make segmentation calls at the same time
NextPar ==
    \/ \E t \in Threads : segment(t)
    \/ \E t \in Threads : segment_sents(t)
    \/ \E t \in Threads : segment_sents_build(t)
    \/ \E t \in Threads : segment_file(t)
    \/ \E t \in Threads : execute_config(t)
    \/ \E t \in Threads : execute_java(t)
    \/ \E t \in Threads : execute_java_raises(t)
    \/ \E t \in Threads : execute_restore(t)
    \/ \E t \in Threads : segment_sents_unlink(t)

SpecPar == InitPar /\ [][NextPar]_vars

----------------------------------------------------------------------------
(* Properties. *)

SegmentationOps == {"segment", "segment_sents", "segment_file"}

Ended(t) == pc[t] = "idle" /\ result[t].state \in {"returned", "raised"}

\* the argument that follows -textFile in an argument list
TextFileOf(cmd) == cmd[1 + CHOOSE k \in 1..Len(cmd) : cmd[k] = "-textFile"]

\* the process-wide options a default configuration leaves
DefaultJavaOptions == imported_java_options

\* C1: once a segment or segment_sents call has returned or raised, the
\* temporary file the call created no longer exists.
C1_TempFileDeleted ==
    \A t \in Threads :
        (Ended(t) /\ result[t].op \in {"segment", "segment_sents"})
            => frame[t].input_fh \notin files

\* C2: the child of a call is launched under the instance's java_options, and
\* once the call has ended, however it ended, the process-wide options are
\* the default again.
C2_OptionsRestored ==
    \A t \in Threads :
        /\ launched[t].started
             => launched[t].java_options = <<seg[frame[t].self].java_options>>
        /\ (Ended(t) /\ result[t].op \in SegmentationOps)
             => internals_java_options = DefaultJavaOptions

\* C3: in every state of an instance the dictionary path and the sihan
\* corpora directory are both set or both absent.
C3_DictCorporaPaired ==
    \A i \in Inst : (seg[i].dict = None) <=> (seg[i].sihan_corpora_dict = None)

\* C4: a call passes to its child, as -textFile, the temporary file this call
\* wrote, and unlinks only that file, under every interleaving of two calls.
C4_OwnTemporaryFile ==
    \A t \in Threads :
        frame[t].entry \in {"segment", "segment_sents"}
            => /\ launched[t].started => TextFileOf(launched[t].cmd) = frame[t].input_fh
               /\ frame[t].unlinked # None => frame[t].unlinked = frame[t].input_fh

\* C5: when two instances with different java_options are used by two calls
\* that interleave, each child is launched under its own instance's
\* java_options, and after both calls have ended the process-wide options
\* are the default.
C5_OwnJavaOptions ==
    \A t, u \in Threads :
        ( /\ t # u
          /\ frame[t].self # 0 /\ frame[u].self # 0 /\ frame[t].self # frame[u].self
          /\ seg[frame[t].self].java_options # seg[frame[u].self].java_options )
            => /\ launched[t].started
                    => launched[t].java_options = <<seg[frame[t].self].java_options>>
               /\ (Ended(t) /\ Ended(u)) => internals_java_options = DefaultJavaOptions

\* C6: after a default_config('zh') that returned, post-processing is 'true'
\* and the dictionary path and corpora directory are set; after a
\* default_config('ar') that returned, both are None; whatever the fields
\* were before the call.
C6_DefaultConfigFields ==
    \A t \in Threads :
        (result[t].op = "default_config" /\ result[t].state = "returned")
            => LET self == seg[result[t].self]
               IN  /\ result[t].lang = "zh"
                        => /\ self.sihan_post_processing = "true"
                           /\ self.dict # None
                           /\ self.sihan_corpora_dict # None
                   /\ result[t].lang = "ar"
                        => /\ self.dict = None
                           /\ self.sihan_corpora_dict = None

\* a default_config('zh') has returned on an instance that was built with a
\* corpora directory, no dictionary and post-processing off
C6_Witness ==
    \E t \in Threads :
        /\ result[t].op = "default_config" /\ result[t].state = "returned"
        /\ result[t].lang = "zh"
        /\ before[t].seg.dict = None
        /\ before[t].seg.sihan_corpora_dict # None
        /\ before[t].seg.sihan_post_processing = "false"
        /\ seg[result[t].self].dict # None

\* a default_config('ar') that returned, called right after a default_config('zh')
\* that returned on the same instance
ArabicAfterChinese(t) ==
    /\ result[t].op = "default_config" /\ result[t].state = "returned"
    /\ result[t].lang = "ar"
    /\ before[t].last.op = "default_config" /\ before[t].last.state = "returned"
    /\ before[t].last.lang = "zh"
    /\ before[t].last.self = result[t].self

\* C7 (as stated): default_config('ar') after a successful default_config('zh')
\* resets the dictionary and corpora fields and leaves the post-processing
\* flag at 'true'.
C7_FlagNotReset ==
    \A t \in Threads :
        ArabicAfterChinese(t)
            => LET self == seg[result[t].self]
               IN  /\ self.dict = None
                   /\ self.sihan_corpora_dict = None
                   /\ self.sihan_post_processing = "true"

\* C7 (amended): default_config('ar') after a successful default_config('zh')
\* resets the dictionary and corpora fields and resets the post-processing
\* flag to 'false'.
C7_FlagReset ==
    \A t \in Threads :
        ArabicAfterChinese(t)
            => LET self == seg[result[t].self]
               IN  /\ self.dict = None
                   /\ self.sihan_corpora_dict = None
                   /\ self.sihan_post_processing = "false"

C7_Witness ==
    \E t \in Threads :
        /\ ArabicAfterChinese(t)
        /\ before[t].seg.sihan_post_processing = "true"
        /\ before[t].seg.dict # None
        /\ seg[result[t].self].sihan_post_processing = "false"

\* C8: default_config(lang) with lang other than 'ar' and 'zh' raises
\* LookupError, with a message that names lang.
C8_UnsupportedLanguage ==
    \A t \in Threads :
        ( /\ result[t].op = "default_config"
          /\ result[t].lang \notin {"ar", "zh"}
          /\ Ended(t) )
            => /\ result[t].state = "raised"
               /\ result[t].exc = "LookupError"
               /\ \E k \in DOMAIN result[t].msg : result[t].msg[k] = result[t].lang

\* C9: once a segmentation call has ended, every field of the instance has
\* the value it had before the call, and the process-wide options, the only
\* state the call changes on the way, have theirs.
C9_ConfigurationReadOnly ==
    \A t \in Threads :
        (Ended(t) /\ result[t].op \in SegmentationOps)
            => /\ seg[result[t].self] = before[t].seg
               /\ internals_java_options = before[t].java_options

\* key=value,key=value with the values JSON-encoded
RECURSIVE KeyValueList(_)
KeyValueList(options) ==
    LET item == options[1]
        text == item.key \o "=" \o
                (IF item.val.kind = "str" THEN "\"" \o item.val.v \o "\"" ELSE item.val.v)
    IN  IF Len(options) = 1 THEN text
        ELSE text \o "," \o KeyValueList(Tail(options))

ExpectedArguments(self, options, path) ==
    << self.java_class, "-loadClassifier", self.model,
       "-keepAllWhitespaces", self.keep_whitespaces, "-textFile", path >>
    \o (IF self.sihan_corpora_dict # None
        THEN << "-serDictionary", self.dict,
                "-sighanCorporaDict", self.sihan_corpora_dict,
                "-sighanPostProcessing", self.sihan_post_processing >>
        ELSE <<>>)
    \o << "-inputEncoding", self.encoding >>
    \o (IF options # <<>> THEN << "-options", KeyValueList(options) >> ELSE <<>>)

\* C10: the argument list handed to the child is the entry point,
\* -loadClassifier, -keepAllWhitespaces, -textFile, the three Chinese
\* arguments exactly when the corpora directory is set, -inputEncoding, and
\* one -options pair exactly when the options are non-empty; segment_file
\* and segment_sents build the same list for the same path.
C10_ArgumentList ==
    /\ \A t \in Threads :
         launched[t].started
            => launched[t].cmd =
                 ExpectedArguments(seg[frame[t].self], given_options[frame[t].self],
                                   IF frame[t].entry = "segment_file"
                                   THEN frame[t].input_file_path
                                   ELSE frame[t].input_fh)
    /\ \A i \in Inst : \A path \in TmpPaths \cup InputFilePaths :
         execute_cmd(seg[i], segment_file_cmd(seg[i], path))
            = execute_cmd(seg[i], segment_sents_cmd([seg[i] EXCEPT !.input_file_path = path]))

\* a segment_sents call has launched its child on an instance with a corpora
\* directory and two options
C10_Witness ==
    \E t \in Threads :
        /\ launched[t].started
        /\ frame[t].entry = "segment_sents"
        /\ seg[frame[t].self].sihan_corpora_dict # None
        /\ Len(given_options[frame[t].self]) = 2
        /\ Len(launched[t].cmd) = 17

====
